---------------------------- MODULE Spec2Model ----------------------------
(***************************************************************************)
(* A model of learn_anything_app:                                          *)
(*   - youtube_integration.py: _parse_duration, _duration_to_seconds,      *)
(*     _get_video_details and search_educational_videos;                   *)
(*   - content_extraction.py: _extract_html_content, summarize_content,    *)
(*     and concurrent callers of one ContentExtractor;                     *)
(*   - main.py: _generate_flashcards.                                      *)
(* Strings are sequences of one-character strings, so that the regular     *)
(* expressions, int(), the format specifications and str.strip()/split()   *)
(* are computed character by character.                                    *)
(***************************************************************************)
EXTENDS Integers, Sequences, FiniteSets, TLC

VARIABLES
    raw,        \* the duration string handed to the duration functions
    human,      \* what _parse_duration(raw) returned
    fields,     \* the match and the locals hours/minutes/seconds of _parse_duration
    secs,       \* what _duration_to_seconds(raw) returned
    video_ids,  \* the ids _get_video_details is asked about
    response,   \* the /videos response _get_video_details receives (in a search: what the endpoint holds)
    details,    \* what _get_video_details returned
    html,       \* the markup handed to _extract_html_content, as a token sequence
    result,     \* what _extract_html_content returned
    strict,     \* whether this build's html.parser rejects an unknown marked section
    session,    \* the state of the shared extractor's self.session
    calls,      \* the concurrent calls on the shared objects, one per caller
    card_count,  \* the card_count _generate_flashcards is called with
    flashcards,  \* the local list flashcards of _generate_flashcards
    total_cards,  \* total_cards of the dictionary _generate_flashcards returned
    pc,         \* where the running coroutine stands
    to_summarize,  \* the text summarize_content is called with
    max_length,  \* the max_length summarize_content is called with
    summary,    \* what summarize_content returned
    api_key,    \* whether the integration was built with an API key
    max_results,  \* the max_results search_educational_videos is called with
    catalogue,  \* the items the search endpoint has for the query, best first
    api_status,  \* whether the search request succeeds
    videos,     \* what search_educational_videos returned
    url,        \* the URL extract_from_url is called with
    fetch,      \* how the request of extract_from_url ends
    content_type,  \* the content-type header of the response
    url_result,  \* what extract_from_url returned
    tool_name,  \* req.params.name of the tool call
    arguments,  \* req.params.arguments of the tool call
    reached,    \* the generator function the tool call has entered
    tool_result,  \* the CallToolResult _call_tool_request returned
    done        \* the operations that have returned

vars == <<raw, human, fields, secs, video_ids, response, details, html, result, strict, session, calls, card_count, flashcards, total_cards, pc, to_summarize, max_length, summary, api_key, max_results, catalogue, api_status, videos, url, fetch, content_type, url_result, tool_name, arguments, reached, tool_result, done>>

(***************************************************************************)
(* Bounds of the model.                                                    *)
(***************************************************************************)
MaxRawLen == 4      \* every duration string up to this length is an input
MaxItems  == 2      \* items in a /videos response, and ids in a request
MaxNodes  == 3      \* nodes of the enumerated documents
MaxCallers == 2     \* concurrent callers of one extractor and one integration
MaxContentLen == 5  \* every text up to this length is summarized
MaxMaxLength == 2   \* the largest max_length a summary is asked for
MaxCatalogue == 3   \* items the search endpoint has for a query
MaxResults == 4     \* the largest max_results a search is asked for
MaxTypeParts == 2   \* parts a content-type header is put together from

----------------------------------------------------------------------------
(***************************************************************************)
(* Characters and small string helpers.                                    *)
(***************************************************************************)
Digits == <<"0", "1", "2", "3", "4", "5", "6", "7", "8", "9">>

IsDigit(c) == \E i \in 1..10 : Digits[i] = c

DigitVal(c) == (CHOOSE i \in 1..10 : Digits[i] = c) - 1

SetMin(S) == CHOOSE x \in S : \A y \in S : x <= y

\* int(s) for a non-empty run of decimal digits (leading zeros allowed).
RECURSIVE IntOf(_)
IntOf(s) ==
    IF s = <<>> THEN 0
    ELSE IntOf(SubSeq(s, 1, Len(s) - 1)) * 10 + DigitVal(s[Len(s)])

\* str(n) for n >= 0.
RECURSIVE StrOf(_)
StrOf(n) ==
    IF n < 10 THEN <<Digits[n + 1]>>
    ELSE StrOf(n \div 10) \o <<Digits[(n % 10) + 1]>>

\* The format specification {n:02d}: at least two digits, zero-filled.
Fmt02d(n) == IF n < 10 THEN <<"0">> \o StrOf(n) ELSE StrOf(n)

Unknown == <<"U", "n", "k", "n", "o", "w", "n">>

----------------------------------------------------------------------------
(***************************************************************************)
(* re.match(r'PT(?:(\d+)H)?(?:(\d+)M)?(?:(\d+)S)?', s)                     *)
(* The match is anchored at the start only.  Each optional group takes the *)
(* longest run of digits at the current position and is kept when the run  *)
(* is non-empty and followed by its letter; otherwise the group does not   *)
(* take part (None) and the position is unchanged.                         *)
(***************************************************************************)
NoGroup == <<>>

\* The index just after the run of digits that starts at pos.
DigitsEnd(s, pos) ==
    LET stops == {k \in pos..Len(s) : ~IsDigit(s[k])}
    IN  IF stops = {} THEN Len(s) + 1 ELSE SetMin(stops)

MatchGroup(s, pos, letter) ==
    LET e == DigitsEnd(s, pos)
    IN  IF e > pos /\ e <= Len(s) /\ s[e] = letter
        THEN [val |-> SubSeq(s, pos, e - 1), next |-> e + 1]
        ELSE [val |-> NoGroup, next |-> pos]

ReMatch(s) ==
    IF Len(s) >= 2 /\ s[1] = "P" /\ s[2] = "T"
    THEN LET h == MatchGroup(s, 3, "H")
             m == MatchGroup(s, h.next, "M")
             x == MatchGroup(s, m.next, "S")
         IN  [matched |-> TRUE, g1 |-> h.val, g2 |-> m.val, g3 |-> x.val,
              end |-> x.next]
    ELSE [matched |-> FALSE, g1 |-> NoGroup, g2 |-> NoGroup, g3 |-> NoGroup,
          end |-> 1]

\* int(match.group(i) or 0)
GroupInt(g) == IF g = NoGroup THEN 0 ELSE IntOf(g)

\* The match object and the locals hours, minutes, seconds of _parse_duration.
DurationFields(s) ==
    LET mt == ReMatch(s)
    IN  [matched |-> mt.matched, hours |-> GroupInt(mt.g1),
         minutes |-> GroupInt(mt.g2), seconds |-> GroupInt(mt.g3)]

parse_duration_nopad(s) ==
    LET mt == ReMatch(s)
        hours   == GroupInt(mt.g1)
        minutes == GroupInt(mt.g2)
        seconds == GroupInt(mt.g3)
    IN  IF mt.matched
        THEN IF hours > 0
             THEN StrOf(hours) \o <<":">> \o StrOf(minutes) \o <<":">> \o StrOf(seconds)
             ELSE StrOf(minutes) \o <<":">> \o StrOf(seconds)
        ELSE Unknown

parse_duration_zero_on_nomatch(s) ==
    LET mt == ReMatch(s)
        hours   == GroupInt(mt.g1)
        minutes == GroupInt(mt.g2)
        seconds == GroupInt(mt.g3)
    IN  IF hours > 0
        THEN StrOf(hours) \o <<":">> \o Fmt02d(minutes) \o <<":">> \o Fmt02d(seconds)
        ELSE StrOf(minutes) \o <<":">> \o Fmt02d(seconds)

\* _parse_duration
parse_duration(s) ==
    LET mt == ReMatch(s)
        hours   == GroupInt(mt.g1)
        minutes == GroupInt(mt.g2)
        seconds == GroupInt(mt.g3)
    IN  IF mt.matched
        THEN IF hours > 0
             THEN StrOf(hours) \o <<":">> \o Fmt02d(minutes) \o <<":">> \o Fmt02d(seconds)
             ELSE StrOf(minutes) \o <<":">> \o Fmt02d(seconds)
        ELSE Unknown

duration_to_seconds_hours_as_minutes(s) ==
    LET mt == ReMatch(s)
    IN  IF mt.matched
        THEN GroupInt(mt.g1) * 60 + GroupInt(mt.g2) * 60 + GroupInt(mt.g3)
        ELSE 0

\* _duration_to_seconds
duration_to_seconds(s) ==
    LET mt == ReMatch(s)
    IN  IF mt.matched
        THEN GroupInt(mt.g1) * 3600 + GroupInt(mt.g2) * 60 + GroupInt(mt.g3)
        ELSE 0

----------------------------------------------------------------------------
(***************************************************************************)
(* _get_video_details: one detail per item of the /videos response, or,    *)
(* when anything in the try block raises, one sentinel per requested id.   *)
(***************************************************************************)
Absent == <<"<absent>">>     \* a key the statistics dictionary does not hold

\* dict.get(key, default)
DictGet(v, default) == IF v = Absent THEN default ELSE v

\* int(x) raises ValueError unless x is a run of decimal digits.
IntRaises(x) == x = <<>> \/ \E i \in 1..Len(x) : ~IsDigit(x[i])

SentinelDetail ==
    [duration |-> Unknown, duration_seconds |-> 0, view_count |-> 0, like_count |-> 0]

ItemRaises(item) ==
    \/ IntRaises(DictGet(item.viewCount, <<"0">>))
    \/ IntRaises(DictGet(item.likeCount, <<"0">>))

\* The body of the loop over data["items"]: the seconds are computed from
\* the string _parse_duration returned, not from the item's raw duration.
ItemDetail(item) ==
    LET duration == parse_duration(item.duration)
    IN  [duration         |-> duration,
         duration_seconds |-> duration_to_seconds(duration),
         view_count       |-> IntOf(DictGet(item.viewCount, <<"0">>)),
         like_count       |-> IntOf(DictGet(item.likeCount, <<"0">>))]

get_video_details(ids, resp) ==
    IF ~resp.ok \/ \E i \in 1..Len(resp.items) : ItemRaises(resp.items[i])
    THEN [i \in 1..Len(ids) |-> SentinelDetail]
    ELSE [i \in 1..Len(resp.items) |-> ItemDetail(resp.items[i])]

----------------------------------------------------------------------------
(***************************************************************************)
(* BeautifulSoup(html, 'html.parser').  The markup is a sequence of tokens *)
(* (start tag with its class attribute, end tag, character data); the soup *)
(* is the list of its nodes in document order, each with its depth, a text *)
(* node having the tag "#text".  html.parser builds the tree from whatever *)
(* it is given: an end tag closes up to the nearest open element of that   *)
(* name or is ignored when there is none, what is still open at the end is *)
(* closed there, and the content of script and style is raw text up to     *)
(* the matching end tag.                                                   *)
(***************************************************************************)
IsSpace(c) == c \in {" ", "\n", "\t"}

AllSpace(s) == \A i \in 1..Len(s) : IsSpace(s[i])

RawTextTags == {"script", "style"}

OpenTok(tag, cls) == [k |-> "open", tag |-> tag, cls |-> cls, text |-> <<>>]
CloseTok(tag)     == [k |-> "close", tag |-> tag, cls |-> <<>>, text |-> <<>>]
TextTok(s)        == [k |-> "text", tag |-> "#text", cls |-> <<>>, text |-> s]
MarkedTok         == [k |-> "marked", tag |-> "", cls |-> <<>>, text |-> <<>>]

\* The characters of a tag that stands inside script or style.
Markup(tok) ==
    IF tok.k = "open" THEN <<"<", ">">>
    ELSE IF tok.k = "close" THEN <<"<", "/", ">">>
    ELSE <<"<", "!", ">">>

\* handle_data: character data with no tag between is one string.
AddData(st, s) ==
    IF st.data
    THEN [st EXCEPT !.nodes[Len(st.nodes)].text = @ \o s]
    ELSE [st EXCEPT !.nodes = Append(@, [tag |-> "#text", cls |-> <<>>, text |-> s,
                                         depth |-> Len(st.stack)]),
                    !.data = TRUE]

\* _popToTag: the index of the most recently opened element of that name, or 0.
LastOpen(stack, tag) ==
    LET at == {i \in 1..Len(stack) : stack[i] = tag}
    IN  IF at = {} THEN 0 ELSE CHOOSE i \in at : \A j \in at : j <= i

Feed(st, tok) ==
    IF st.cdata # ""
    THEN IF tok.k = "close" /\ tok.tag = st.cdata
         THEN [st EXCEPT !.stack = SubSeq(@, 1, Len(@) - 1), !.cdata = "", !.data = FALSE]
         ELSE AddData(st, IF tok.k = "text" THEN tok.text ELSE Markup(tok))
    ELSE IF tok.k = "open"
         THEN [st EXCEPT !.nodes = Append(@, [tag |-> tok.tag, cls |-> tok.cls,
                                              text |-> <<>>, depth |-> Len(st.stack)]),
                         !.stack = Append(@, tok.tag),
                         !.cdata = IF tok.tag \in RawTextTags THEN tok.tag ELSE "",
                         !.data = FALSE]
    ELSE IF tok.k = "close"
         THEN LET i == LastOpen(st.stack, tok.tag)
              IN  IF i = 0 THEN [st EXCEPT !.data = FALSE]
                  ELSE [st EXCEPT !.stack = SubSeq(@, 1, i - 1), !.data = FALSE]
    ELSE IF tok.k = "marked"
         THEN [st EXCEPT !.data = FALSE]
    ELSE AddData(st, tok.text)

RECURSIVE FeedAll(_, _)
FeedAll(st, toks) ==
    IF toks = <<>> THEN st ELSE FeedAll(Feed(st, Head(toks)), Tail(toks))

\* endData: a string of nothing but whitespace becomes one newline or space.
EndData(node) ==
    IF node.tag = "#text" /\ AllSpace(node.text)
    THEN [node EXCEPT !.text = IF \E i \in 1..Len(@) : @[i] = "\n" THEN <<"\n">> ELSE <<" ">>]
    ELSE node

NewParser == [nodes |-> <<>>, stack |-> <<>>, cdata |-> "", data |-> FALSE]

BeautifulSoup(toks) ==
    LET st == FeedAll(NewParser, toks)
    IN  [i \in 1..Len(st.nodes) |-> EndData(st.nodes[i])]

\* parse_marked_section: outside script and style, a marked section whose
\* keyword the parser does not know (<![x]>) fails an assertion of
\* html.parser, and BeautifulSoup() raises ParserRejectedMarkup.
ParserRejects(toks) ==
    \E i \in 1..Len(toks) :
        /\ toks[i].k = "marked"
        /\ FeedAll(NewParser, SubSeq(toks, 1, i - 1)).cdata = ""

\* The nodes of the subtree rooted at node i (i itself and its descendants).
Subtree(soup, i) ==
    {k \in i..Len(soup) : \A j \in (i + 1)..k : soup[j].depth > soup[i].depth}

RECURSIVE Keep(_, _, _)
Keep(soup, drop, i) ==
    IF i > Len(soup) THEN <<>>
    ELSE (IF i \in drop THEN <<>> ELSE <<soup[i]>>) \o Keep(soup, drop, i + 1)

DecomposeNothing(soup) == soup

\* for script in soup(["script", "style"]): script.decompose()
Decompose(soup) ==
    Keep(soup, UNION {Subtree(soup, i) : i \in {j \in 1..Len(soup) : soup[j].tag \in RawTextTags}}, 1)

\* soup.find(...): the first node in document order that qualifies, or 0.
First(S) == IF S = {} THEN 0 ELSE SetMin(S)

FindTag(soup, tag) == First({i \in 1..Len(soup) : soup[i].tag = tag})

\* re.search of a literal in a string.
Contains(s, w) ==
    \E i \in 1..(Len(s) - Len(w) + 1) : SubSeq(s, i, i + Len(w) - 1) = w

WordContent == <<"c", "o", "n", "t", "e", "n", "t">>
WordArticle == <<"a", "r", "t", "i", "c", "l", "e">>
WordMain    == <<"m", "a", "i", "n">>

\* class_=re.compile(r'content|article|main'): searched as written.
ClassMatches(cls) ==
    Contains(cls, WordContent) \/ Contains(cls, WordArticle) \/ Contains(cls, WordMain)

\* soup.find('div', class_=re.compile(r'content|article|main'))
FindDivByClass(soup) ==
    First({i \in 1..Len(soup) : soup[i].tag = "div" /\ ClassMatches(soup[i].cls)})

\* str.strip()
RECURSIVE LStrip(_)
LStrip(s) == IF s # <<>> /\ IsSpace(Head(s)) THEN LStrip(Tail(s)) ELSE s

RECURSIVE RStrip(_)
RStrip(s) ==
    IF s # <<>> /\ IsSpace(s[Len(s)]) THEN RStrip(SubSeq(s, 1, Len(s) - 1)) ELSE s

StripLeftOnly(s) == LStrip(s)

Strip(s) == RStrip(LStrip(s))

\* tag.get_text(): the strings below node i, concatenated.
RECURSIVE GetTextFrom(_, _, _)
GetTextFrom(soup, i, k) ==
    IF k > Len(soup) THEN <<>>
    ELSE (IF k \in Subtree(soup, i) /\ soup[k].tag = "#text" THEN soup[k].text ELSE <<>>)
         \o GetTextFrom(soup, i, k + 1)

GetText(soup, i) == GetTextFrom(soup, i, i)

\* tag.get_text(separator='\n', strip=True): each string below node i
\* stripped, the empty ones dropped, the rest joined by a newline.
RECURSIVE StrippedFrom(_, _, _, _)
StrippedFrom(soup, i, k, first) ==
    IF k > Len(soup) THEN <<>>
    ELSE LET s == IF k \in Subtree(soup, i) /\ soup[k].tag = "#text"
                  THEN Strip(soup[k].text) ELSE <<>>
         IN  IF s = <<>> THEN StrippedFrom(soup, i, k + 1, first)
             ELSE (IF first THEN <<>> ELSE <<"\n">>) \o s
                  \o StrippedFrom(soup, i, k + 1, FALSE)

GetTextStripped(soup, i) == StrippedFrom(soup, i, i, TRUE)

SubNewlinesNone(s, i) == SubSeq(s, i, Len(s))

\* re.sub(r'\n\s*\n', '\n\n', content): from a newline, the longest run of
\* whitespace that ends in another newline is replaced by two newlines.
RECURSIVE SubNewlines(_, _)
SubNewlines(s, i) ==
    IF i > Len(s) THEN <<>>
    ELSE LET ends == {j \in (i + 1)..Len(s) :
                        s[j] = "\n" /\ \A k \in i..j : IsSpace(s[k])}
         IN  IF s[i] = "\n" /\ ends # {}
             THEN <<"\n", "\n">> \o SubNewlines(s, (CHOOSE j \in ends : \A e \in ends : e <= j) + 1)
             ELSE <<s[i]>> \o SubNewlines(s, i + 1)

WordCountBySpaces(s) == Cardinality({i \in 1..Len(s) : s[i] = " "}) + 1

\* len(content.split()): the runs of characters that are not whitespace.
WordCount(s) ==
    Cardinality({i \in 1..Len(s) : ~IsSpace(s[i]) /\ (i = 1 \/ IsSpace(s[i - 1]))})

Untitled == <<"U", "n", "t", "i", "t", "l", "e", "d">>

\* main_content = soup.find('main') or soup.find('article') or soup.find('div', ...);
\* a Tag is always true, so the first find that returns a node decides.
MainContent(soup) ==
    IF FindTag(soup, "main") # 0 THEN FindTag(soup, "main")
    ELSE IF FindTag(soup, "article") # 0 THEN FindTag(soup, "article")
    ELSE FindDivByClass(soup)

ContentNodeOrDocument(soup) ==
    IF MainContent(soup) # 0 THEN MainContent(soup)
    ELSE IF FindTag(soup, "body") # 0 THEN FindTag(soup, "body")
    ELSE IF soup # <<>> THEN 1 ELSE 0

\* The node whose text becomes the content: main_content, else body, else none (0).
ContentNode(soup) ==
    IF MainContent(soup) # 0 THEN MainContent(soup) ELSE FindTag(soup, "body")

\* _extract_html_content
extract_html_content(toks) ==
    LET soup    == Decompose(BeautifulSoup(toks))
        title   == FindTag(soup, "title")
        node    == ContentNode(soup)
        content == IF node # 0 THEN GetTextStripped(soup, node) ELSE <<>>
        cleaned == Strip(SubNewlines(content, 1))
    IN  [type       |-> "article",
         content    |-> cleaned,
         title      |-> IF title # 0 THEN Strip(GetText(soup, title)) ELSE Untitled,
         word_count |-> WordCount(cleaned)]

\* What a caller of _extract_html_content gets: the method has no handler,
\* so an exception of BeautifulSoup() leaves it (no dictionary is returned).
Raised == [type |-> "raised", content |-> <<>>, title |-> <<>>, word_count |-> 0]

call_extract_html_content(toks, rejecting) ==
    IF rejecting /\ ParserRejects(toks) THEN Raised ELSE extract_html_content(toks)

----------------------------------------------------------------------------
(***************************************************************************)
(* Inputs of the duration functions.                                       *)
(***************************************************************************)
DurAlphabet == {"P", "T", "H", "M", "S", "0", "7", "X"}

SmallStrings == UNION {[1..n -> DurAlphabet] : n \in 0..MaxRawLen}

\* Digit runs of the groups: plain numbers, a leading zero, values over 59.
DigitRuns ==
    {<<"0">>, <<"1">>, <<"2">>, <<"3">>, <<"4">>, <<"1", "3">>, <<"0", "5">>,
     <<"5", "9">>, <<"6", "0">>, <<"9", "0">>, <<"1", "0", "0">>}

Group(run, letter) == IF run = NoGroup THEN <<>> ELSE run \o <<letter>>

Build(h, m, s) == <<"P", "T">> \o Group(h, "H") \o Group(m, "M") \o Group(s, "S")

BuiltStrings ==
    {Build(h, m, s) : h \in DigitRuns \cup {NoGroup}, m \in DigitRuns \cup {NoGroup},
                      s \in DigitRuns \cup {NoGroup}}

PT4M13S  == <<"P", "T", "4", "M", "1", "3", "S">>
PT1H2M3S == <<"P", "T", "1", "H", "2", "M", "3", "S">>
PT0S     == <<"P", "T", "0", "S">>
PT90S    == <<"P", "T", "9", "0", "S">>
PT1p5S   == <<"P", "T", "1", ".", "5", "S">>
PT5X     == <<"P", "T", "5", "X">>
P1DT2H   == <<"P", "1", "D", "T", "2", "H">>
PT5M3X   == <<"P", "T", "5", "M", "3", "X">>

OddStrings == {PT1p5S, PT5X, P1DT2H, PT5M3X, <<"4", ":", "1", "3">>, <<" ", "P", "T", "1", "S">>}

DurInputs == SmallStrings \cup BuiltStrings \cup OddStrings

\* Inputs of _get_video_details.
ItemDurations == {PT4M13S, PT1H2M3S, PT0S, P1DT2H}

Items ==
    [duration : ItemDurations, viewCount : {Absent, <<"7">>, <<"X">>},
     likeCount : {Absent, <<"3">>}]

Responses ==
    [ok : BOOLEAN, items : UNION {[1..n -> Items] : n \in 0..MaxItems}]

IdLists == {[i \in 1..n |-> i] : n \in 0..MaxItems}

----------------------------------------------------------------------------
(***************************************************************************)
(* Inputs of _extract_html_content: every document of up to MaxNodes nodes *)
(* over a small set of elements and strings, written out as markup with    *)
(* and without its end tags, and some documents written by hand.  The text *)
(* of script and style is written with "$", which no other text uses.      *)
(***************************************************************************)
ClsContent     == WordContent
ClsMainContent == <<"M", "a", "i", "n", "-", "C", "o", "n", "t", "e", "n", "t">>
ClsSidebar     == <<"s", "i", "d", "e", "b", "a", "r">>

Secret == <<"$">>

Elem(tag, cls) == [tag |-> tag, cls |-> cls, text |-> <<>>]
Text(s)        == [tag |-> "#text", cls |-> <<>>, text |-> s]

ElemKinds ==
    {Elem("main", <<>>), Elem("article", <<>>), Elem("body", <<>>), Elem("title", <<>>),
     Elem("script", <<>>), Elem("div", ClsContent), Elem("section", ClsContent),
     Elem("div", ClsMainContent)}

TextKinds == {Text(<<"a">>), Text(<<" ", "b", " ", " ", "c", "\n">>)}

NodeKinds == ElemKinds \cup TextKinds \cup {Text(Secret)}

\* The depths of a tree's nodes in document order: the first is a root and
\* a node lies at most one level below the node before it.
IsShape(d) ==
    \A i \in DOMAIN d : IF i = 1 THEN d[i] = 0 ELSE d[i] <= d[i - 1] + 1

\* Whether node i lies inside a script or style element.
InRawText(tree, i) ==
    \E j \in 1..(i - 1) :
        /\ tree[j].tag \in RawTextTags
        /\ \A k \in (j + 1)..i : tree[k].depth > tree[j].depth

\* A string has no children; the text of script and style is the secret,
\* and the secret stands nowhere else; script and style hold no script or
\* style tag (the first end tag would end the outer one).
IsTree(tree) ==
    \A i \in 1..Len(tree) :
        /\ (i > 1 /\ tree[i].depth > tree[i - 1].depth) => tree[i - 1].tag # "#text"
        /\ tree[i].tag = "#text" => (tree[i].text = Secret <=> InRawText(tree, i))
        /\ tree[i].tag \in RawTextTags => ~InRawText(tree, i)

TreeOf(kinds, d) ==
    [i \in DOMAIN kinds |->
        [tag |-> kinds[i].tag, cls |-> kinds[i].cls, text |-> kinds[i].text, depth |-> d[i]]]

\* The end tags of the elements open deeper than d, innermost first.
Closes(stack, d) == [k \in 1..(Len(stack) - d) |-> CloseTok(stack[Len(stack) + 1 - k])]

RECURSIVE RenderFrom(_, _, _)
RenderFrom(tree, i, stack) ==
    IF i > Len(tree) THEN Closes(stack, 0)
    ELSE LET n    == tree[i]
             open == SubSeq(stack, 1, n.depth)
         IN  Closes(stack, n.depth)
             \o (IF n.tag = "#text"
                 THEN <<TextTok(n.text)>> \o RenderFrom(tree, i + 1, open)
                 ELSE <<OpenTok(n.tag, n.cls)>> \o RenderFrom(tree, i + 1, Append(open, n.tag)))

Render(tree) == RenderFrom(tree, 1, <<>>)

IsNotClose(tok) == tok.k # "close"

Unclosed(toks) == SelectSeq(toks, IsNotClose)

Hello3World ==
    <<"H", "e", "l", "l", "o", " ", " ", " ", "w", "o", "r", "l", "d">>

\* <html><head><title>T</title></head><body><main>Hello   world</main></body></html>
DocHello ==
    <<OpenTok("html", <<>>), OpenTok("head", <<>>), OpenTok("title", <<>>), TextTok(<<"T">>),
      CloseTok("title"), CloseTok("head"), OpenTok("body", <<>>), OpenTok("main", <<>>),
      TextTok(Hello3World), CloseTok("main"), CloseTok("body"), CloseTok("html")>>

\* <body><section class="Main-Content">a</section><p>b</p></body>
DocSection ==
    <<OpenTok("body", <<>>), OpenTok("section", ClsMainContent), TextTok(<<"a">>),
      CloseTok("section"), OpenTok("p", <<>>), TextTok(<<"b">>), CloseTok("p"),
      CloseTok("body")>>

\* <title> T </title><body><style>$</style><p>a</p>\n\n\n<p>b\n \n\nc</p><script>$</script></body>
DocNewlines ==
    <<OpenTok("title", <<>>), TextTok(<<" ", "T", " ">>), CloseTok("title"),
      OpenTok("body", <<>>), OpenTok("style", <<>>), TextTok(Secret), CloseTok("style"),
      OpenTok("p", <<>>), TextTok(<<"a">>), CloseTok("p"), TextTok(<<"\n", "\n", "\n">>),
      OpenTok("p", <<>>), TextTok(<<"b", "\n", " ", "\n", "\n", "c">>), CloseTok("p"),
      OpenTok("script", <<>>), TextTok(Secret), CloseTok("script"), CloseTok("body")>>

\* <div class="sidebar">a</div></p><p>b        (no main, article or body)
DocBare ==
    <<OpenTok("div", ClsSidebar), TextTok(<<"a">>), CloseTok("div"), CloseTok("p"),
      OpenTok("p", <<>>), TextTok(<<"b">>)>>

\* <article>a</article><main><style>$</style>b</main>
DocArticleFirst ==
    <<OpenTok("article", <<>>), TextTok(<<"a">>), CloseTok("article"), OpenTok("main", <<>>),
      OpenTok("style", <<>>), TextTok(Secret), CloseTok("style"), TextTok(<<"b">>),
      CloseTok("main")>>

\* <main> a\n\n\nb\n\n\n\n \nc </main>
DocRuns ==
    <<OpenTok("main", <<>>),
      TextTok(<<" ", "a", "\n", "\n", "\n", "b", "\n", "\n", "\n", "\n", " ", "\n", "c", " ">>),
      CloseTok("main")>>

\* <title>T</title><body>a<![x]>b</body>
DocMarked ==
    <<OpenTok("title", <<>>), TextTok(<<"T">>), CloseTok("title"), OpenTok("body", <<>>),
      TextTok(<<"a">>), MarkedTok, TextTok(<<"b">>), CloseTok("body")>>

\* <body><script><![x]></script>a</body>
DocMarkedInScript ==
    <<OpenTok("body", <<>>), OpenTok("script", <<>>), MarkedTok, CloseTok("script"),
      TextTok(<<"a">>), CloseTok("body")>>

HandWritten ==
    {DocHello, DocSection, DocNewlines, DocBare, DocArticleFirst, DocRuns, DocMarked,
     DocMarkedInScript}

\* The markup of a tree, with its end tags or without any.
Written(tree, closed) == IF closed THEN Render(tree) ELSE Unclosed(Render(tree))

----------------------------------------------------------------------------
(***************************************************************************)
(* The duration functions as operations on one input string.               *)
(***************************************************************************)
NoFields == [matched |-> FALSE, hours |-> 0, minutes |-> 0, seconds |-> 0]
NoResponse == [ok |-> FALSE, items |-> <<>>]
NoResult == [type |-> "", content |-> <<>>, title |-> <<>>, word_count |-> 0]

InitDuration ==
    /\ raw \in DurInputs
    /\ human = <<>>
    /\ fields = NoFields
    /\ secs = 0
    /\ video_ids = <<>>
    /\ response = NoResponse
    /\ details = <<>>
    /\ html = <<>>
    /\ result = NoResult
    /\ strict = FALSE
    /\ session = "none"
    /\ calls = <<>>
    /\ card_count = 0
    /\ flashcards = <<>>
    /\ total_cards = 0
    /\ pc = "idle"
    /\ to_summarize = <<>>
    /\ max_length = 0
    /\ summary = <<>>
    /\ api_key = FALSE
    /\ max_results = 0
    /\ catalogue = <<>>
    /\ api_status = "ok"
    /\ videos = <<>>
    /\ url = ""
    /\ fetch = "ok"
    /\ content_type = <<>>
    /\ url_result = [type |-> "", source |-> ""]
    /\ tool_name = ""
    /\ arguments = <<>>
    /\ reached = "none"
    /\ tool_result = [isError |-> FALSE, text |-> "", structured |-> FALSE, template |-> ""]
    /\ done = {}

ParseDuration ==
    /\ "parse_duration" \notin done
    /\ human' = parse_duration(raw)
    /\ fields' = DurationFields(raw)
    /\ done' = done \cup {"parse_duration"}
    /\ UNCHANGED <<raw, secs, video_ids, response, details, html, result, strict, session, calls, card_count, flashcards, total_cards, pc, to_summarize, max_length, summary, api_key, max_results, catalogue, api_status, videos, url, fetch, content_type, url_result, tool_name, arguments, reached, tool_result>>

DurationToSeconds ==
    /\ "duration_to_seconds" \notin done
    /\ secs' = duration_to_seconds(raw)
    /\ done' = done \cup {"duration_to_seconds"}
    /\ UNCHANGED <<raw, human, fields, video_ids, response, details, html, result, strict, session, calls, card_count, flashcards, total_cards, pc, to_summarize, max_length, summary, api_key, max_results, catalogue, api_status, videos, url, fetch, content_type, url_result, tool_name, arguments, reached, tool_result>>

NextDuration == ParseDuration \/ DurationToSeconds

Spec == InitDuration /\ [][NextDuration]_vars

(***************************************************************************)
(* _get_video_details as an operation on one request and its response.     *)
(***************************************************************************)
InitDetails ==
    /\ raw = <<>>
    /\ human = <<>>
    /\ fields = NoFields
    /\ secs = 0
    /\ video_ids \in IdLists
    /\ response \in Responses
    /\ details = <<>>
    /\ html = <<>>
    /\ result = NoResult
    /\ strict = FALSE
    /\ session = "none"
    /\ calls = <<>>
    /\ card_count = 0
    /\ flashcards = <<>>
    /\ total_cards = 0
    /\ pc = "idle"
    /\ to_summarize = <<>>
    /\ max_length = 0
    /\ summary = <<>>
    /\ api_key = FALSE
    /\ max_results = 0
    /\ catalogue = <<>>
    /\ api_status = "ok"
    /\ videos = <<>>
    /\ url = ""
    /\ fetch = "ok"
    /\ content_type = <<>>
    /\ url_result = [type |-> "", source |-> ""]
    /\ tool_name = ""
    /\ arguments = <<>>
    /\ reached = "none"
    /\ tool_result = [isError |-> FALSE, text |-> "", structured |-> FALSE, template |-> ""]
    /\ done = {}

GetVideoDetails ==
    /\ "get_video_details" \notin done
    /\ details' = get_video_details(video_ids, response)
    /\ done' = done \cup {"get_video_details"}
    /\ UNCHANGED <<raw, human, fields, secs, video_ids, response, html, result, strict, session, calls, card_count, flashcards, total_cards, pc, to_summarize, max_length, summary, api_key, max_results, catalogue, api_status, videos, url, fetch, content_type, url_result, tool_name, arguments, reached, tool_result>>

NextDetails == GetVideoDetails

SpecDetails == InitDetails /\ [][NextDetails]_vars

(***************************************************************************)
(* _extract_html_content as an operation on one document.                  *)
(***************************************************************************)
InitHtml ==
    /\ raw = <<>>
    /\ human = <<>>
    /\ fields = NoFields
    /\ secs = 0
    /\ video_ids = <<>>
    /\ response = NoResponse
    /\ details = <<>>
    /\ \/ \E n \in 0..MaxNodes : \E d \in [1..n -> 0..(MaxNodes - 1)] :
             /\ IsShape(d)
             /\ \E kinds \in [1..n -> NodeKinds], closed \in BOOLEAN :
                   /\ IsTree(TreeOf(kinds, d))
                   /\ html = Written(TreeOf(kinds, d), closed)
       \/ html \in HandWritten
    /\ result = NoResult
    /\ strict \in BOOLEAN
    /\ session = "none"
    /\ calls = <<>>
    /\ card_count = 0
    /\ flashcards = <<>>
    /\ total_cards = 0
    /\ pc = "idle"
    /\ to_summarize = <<>>
    /\ max_length = 0
    /\ summary = <<>>
    /\ api_key = FALSE
    /\ max_results = 0
    /\ catalogue = <<>>
    /\ api_status = "ok"
    /\ videos = <<>>
    /\ url = ""
    /\ fetch = "ok"
    /\ content_type = <<>>
    /\ url_result = [type |-> "", source |-> ""]
    /\ tool_name = ""
    /\ arguments = <<>>
    /\ reached = "none"
    /\ tool_result = [isError |-> FALSE, text |-> "", structured |-> FALSE, template |-> ""]
    /\ done = {}

ExtractHtmlContent ==
    /\ "extract_html_content" \notin done
    /\ result' = call_extract_html_content(html, strict)
    /\ done' = done \cup {"extract_html_content"}
    /\ UNCHANGED <<raw, human, fields, secs, video_ids, response, details, html, strict, session, calls, card_count, flashcards, total_cards, pc, to_summarize, max_length, summary, api_key, max_results, catalogue, api_status, videos, url, fetch, content_type, url_result, tool_name, arguments, reached, tool_result>>

NextHtml == ExtractHtmlContent

SpecHtml == InitHtml /\ [][NextHtml]_vars

(***************************************************************************)
(* Concurrent callers of one ContentExtractor and one YouTubeIntegration.  *)
(* __init__ has created self.session; a caller invokes one method and      *)
(* the method runs when the caller is scheduled, in any order with the     *)
(* other callers.  What a method could read of the shared object is the    *)
(* session, which is handed to call_result.                                *)
(***************************************************************************)
Callers == 1..MaxCallers

NoOut == [human |-> <<>>, secs |-> 0, result |-> NoResult]

NoCall == [pc |-> "idle", op |-> "", arg |-> <<>>, seen |-> "", out |-> NoOut]

ErrorResult == [type |-> "error", content |-> <<>>, title |-> <<>>, word_count |-> 0]

call_result_through_session(op, arg, sess, rejecting) ==
    IF op = "parse_duration" THEN [NoOut EXCEPT !.human = parse_duration(arg)]
    ELSE IF op = "duration_to_seconds" THEN [NoOut EXCEPT !.secs = duration_to_seconds(arg)]
    ELSE IF op = "extract_html_content"
         THEN [NoOut EXCEPT !.result = IF sess = "closed" THEN ErrorResult
                                       ELSE call_extract_html_content(arg, rejecting)]
    ELSE NoOut

\* What the method op returns for arg on an object whose session is sess:
\* none of the three methods reads self, and close() returns None.
call_result(op, arg, sess, rejecting) ==
    IF op = "parse_duration" THEN [NoOut EXCEPT !.human = parse_duration(arg)]
    ELSE IF op = "duration_to_seconds" THEN [NoOut EXCEPT !.secs = duration_to_seconds(arg)]
    ELSE IF op = "extract_html_content"
         THEN [NoOut EXCEPT !.result = call_extract_html_content(arg, rejecting)]
    ELSE NoOut

ConcDurations == {PT4M13S, P1DT2H}

ConcDocs == {DocHello, DocMarked}

InitConcurrent ==
    /\ raw = <<>>
    /\ human = <<>>
    /\ fields = NoFields
    /\ secs = 0
    /\ video_ids = <<>>
    /\ response = NoResponse
    /\ details = <<>>
    /\ html = <<>>
    /\ result = NoResult
    /\ strict \in BOOLEAN
    /\ session = "open"
    /\ calls = [c \in Callers |-> NoCall]
    /\ card_count = 0
    /\ flashcards = <<>>
    /\ total_cards = 0
    /\ pc = "idle"
    /\ to_summarize = <<>>
    /\ max_length = 0
    /\ summary = <<>>
    /\ api_key = FALSE
    /\ max_results = 0
    /\ catalogue = <<>>
    /\ api_status = "ok"
    /\ videos = <<>>
    /\ url = ""
    /\ fetch = "ok"
    /\ content_type = <<>>
    /\ url_result = [type |-> "", source |-> ""]
    /\ tool_name = ""
    /\ arguments = <<>>
    /\ reached = "none"
    /\ tool_result = [isError |-> FALSE, text |-> "", structured |-> FALSE, template |-> ""]
    /\ done = {}

Invoke(c) ==
    /\ calls[c].pc = "idle"
    /\ \/ \E op \in {"parse_duration", "duration_to_seconds"}, arg \in ConcDurations :
             calls' = [calls EXCEPT ![c] = [NoCall EXCEPT !.pc = "running", !.op = op, !.arg = arg]]
       \/ \E arg \in ConcDocs :
             calls' = [calls EXCEPT ![c] = [NoCall EXCEPT !.pc = "running",
                                                          !.op = "extract_html_content",
                                                          !.arg = arg]]
       \/ calls' = [calls EXCEPT ![c] = [NoCall EXCEPT !.pc = "running", !.op = "close"]]
    /\ UNCHANGED <<raw, human, fields, secs, video_ids, response, details, html, result, strict, session, done, card_count, flashcards, total_cards, pc, to_summarize, max_length, summary, api_key, max_results, catalogue, api_status, videos, url, fetch, content_type, url_result, tool_name, arguments, reached, tool_result>>

\* The method body: it runs without an await, so in one step.
Run(c) ==
    /\ calls[c].pc = "running"
    /\ calls[c].op # "close"
    /\ calls' = [calls EXCEPT ![c].pc = "returned",
                              ![c].seen = session,
                              ![c].out = call_result(calls[c].op, calls[c].arg, session, strict)]
    /\ UNCHANGED <<raw, human, fields, secs, video_ids, response, details, html, result, strict, session, done, card_count, flashcards, total_cards, pc, to_summarize, max_length, summary, api_key, max_results, catalogue, api_status, videos, url, fetch, content_type, url_result, tool_name, arguments, reached, tool_result>>

\* close(): await self.session.aclose()
Close(c) ==
    /\ calls[c].pc = "running"
    /\ calls[c].op = "close"
    /\ session' = "closed"
    /\ calls' = [calls EXCEPT ![c].pc = "returned", ![c].seen = session]
    /\ UNCHANGED <<raw, human, fields, secs, video_ids, response, details, html, result, strict, done, card_count, flashcards, total_cards, pc, to_summarize, max_length, summary, api_key, max_results, catalogue, api_status, videos, url, fetch, content_type, url_result, tool_name, arguments, reached, tool_result>>

NextConcurrent == \E c \in Callers : Invoke(c) \/ Run(c) \/ Close(c)

SpecConcurrent == InitConcurrent /\ [][NextConcurrent]_vars

(***************************************************************************)
(* _generate_flashcards, statement by statement.  The searches and the     *)
(* question generator are the mock bodies of content_extraction.py; an     *)
(* exception in the try block (none of the mock bodies raises one, a       *)
(* replaced body may) leads to the handler.                                *)
(***************************************************************************)
MinCardCount     == 1
MaxCardCount     == 50
DefaultCardCount == 10

CardCounts == MinCardCount..MaxCardCount

\* generate_study_questions: the types of the three questions it returns.
questions == <<"comprehension", "application", "analysis">>

\* The five entries of template_questions (and of template_answers).
template_questions == <<"applications", "problem", "practices", "evolved", "skills">>

Card(i, type) == [id |-> i + 1, type |-> type]

Min(a, b) == IF a <= b THEN a ELSE b

\* len(seq[:n]) for a sequence of length len: a negative n counts from the end.
SliceLen(len, n) ==
    IF n >= 0 THEN Min(len, n) ELSE IF len + n > 0 THEN len + n ELSE 0

\* for i, question_data in enumerate(questions[:card_count]): flashcards.append(...)
question_cards(count) ==
    [k \in 1..SliceLen(Len(questions), count) |-> Card(k - 1, questions[k])]

\* for i in range(card_count): flashcards.append(...)
fallback_cards(count) == [k \in 1..count |-> Card(k - 1, "fallback")]

InitFlashcards ==
    /\ raw = <<>>
    /\ human = <<>>
    /\ fields = NoFields
    /\ secs = 0
    /\ video_ids = <<>>
    /\ response = NoResponse
    /\ details = <<>>
    /\ html = <<>>
    /\ result = NoResult
    /\ strict = FALSE
    /\ session = "open"
    /\ calls = <<>>
    /\ card_count \in CardCounts
    /\ flashcards = <<>>
    /\ total_cards = 0
    /\ pc = "try"
    /\ to_summarize = <<>>
    /\ max_length = 0
    /\ summary = <<>>
    /\ api_key = FALSE
    /\ max_results = 0
    /\ catalogue = <<>>
    /\ api_status = "ok"
    /\ videos = <<>>
    /\ url = ""
    /\ fetch = "ok"
    /\ content_type = <<>>
    /\ url_result = [type |-> "", source |-> ""]
    /\ tool_name = ""
    /\ arguments = <<>>
    /\ reached = "none"
    /\ tool_result = [isError |-> FALSE, text |-> "", structured |-> FALSE, template |-> ""]
    /\ done = {}

\* papers, books and questions are fetched.
Fetch ==
    /\ pc = "try"
    /\ pc' = "create"
    /\ UNCHANGED <<raw, human, fields, secs, video_ids, response, details, html, result, strict, session, calls, card_count, flashcards, total_cards, done, to_summarize, max_length, summary, api_key, max_results, catalogue, api_status, videos, url, fetch, content_type, url_result, tool_name, arguments, reached, tool_result>>

\* A statement of the try block raises an Exception.
FetchRaises ==
    /\ pc = "try"
    /\ pc' = "except"
    /\ UNCHANGED <<raw, human, fields, secs, video_ids, response, details, html, result, strict, session, calls, card_count, flashcards, total_cards, done, to_summarize, max_length, summary, api_key, max_results, catalogue, api_status, videos, url, fetch, content_type, url_result, tool_name, arguments, reached, tool_result>>

CreateFlashcards ==
    /\ pc = "create"
    /\ flashcards' = question_cards(card_count)
    /\ pc' = "while"
    /\ UNCHANGED <<raw, human, fields, secs, video_ids, response, details, html, result, strict, session, calls, card_count, total_cards, done, to_summarize, max_length, summary, api_key, max_results, catalogue, api_status, videos, url, fetch, content_type, url_result, tool_name, arguments, reached, tool_result>>

\* while len(flashcards) < card_count:
WhileTest ==
    /\ pc = "while"
    /\ pc' = IF Len(flashcards) < card_count THEN "body" ELSE "finally"
    /\ UNCHANGED <<raw, human, fields, secs, video_ids, response, details, html, result, strict, session, calls, card_count, flashcards, total_cards, done, to_summarize, max_length, summary, api_key, max_results, catalogue, api_status, videos, url, fetch, content_type, url_result, tool_name, arguments, reached, tool_result>>

\* i = len(flashcards); if i < len(template_questions): flashcards.append(...)
WhileBody ==
    /\ pc = "body"
    /\ LET i == Len(flashcards)
       IN  flashcards' = IF i < Len(template_questions)
                         THEN Append(flashcards, Card(i, "template"))
                         ELSE flashcards
    /\ pc' = "while"
    /\ UNCHANGED <<raw, human, fields, secs, video_ids, response, details, html, result, strict, session, calls, card_count, total_cards, done, to_summarize, max_length, summary, api_key, max_results, catalogue, api_status, videos, url, fetch, content_type, url_result, tool_name, arguments, reached, tool_result>>

Except ==
    /\ pc = "except"
    /\ flashcards' = fallback_cards(card_count)
    /\ pc' = "finally"
    /\ UNCHANGED <<raw, human, fields, secs, video_ids, response, details, html, result, strict, session, calls, card_count, total_cards, done, to_summarize, max_length, summary, api_key, max_results, catalogue, api_status, videos, url, fetch, content_type, url_result, tool_name, arguments, reached, tool_result>>

\* finally: await content_extractor.close()
Finally ==
    /\ pc = "finally"
    /\ session' = "closed"
    /\ pc' = "return"
    /\ UNCHANGED <<raw, human, fields, secs, video_ids, response, details, html, result, strict, calls, card_count, flashcards, total_cards, done, to_summarize, max_length, summary, api_key, max_results, catalogue, api_status, videos, url, fetch, content_type, url_result, tool_name, arguments, reached, tool_result>>

Return ==
    /\ pc = "return"
    /\ total_cards' = Len(flashcards)
    /\ pc' = "returned"
    /\ done' = done \cup {"generate_flashcards"}
    /\ UNCHANGED <<raw, human, fields, secs, video_ids, response, details, html, result, strict, session, calls, card_count, flashcards, to_summarize, max_length, summary, api_key, max_results, catalogue, api_status, videos, url, fetch, content_type, url_result, tool_name, arguments, reached, tool_result>>

NextFlashcards ==
    \/ Fetch
    \/ FetchRaises
    \/ CreateFlashcards
    \/ WhileTest
    \/ WhileBody
    \/ Except
    \/ Finally
    \/ Return

\* The event loop keeps running the coroutine until it returns.
SpecFlashcards == InitFlashcards /\ [][NextFlashcards]_vars /\ WF_vars(NextFlashcards)

(***************************************************************************)
(* summarize_content as an operation on one text and one max_length.       *)
(***************************************************************************)
\* content.split('.'): the pieces between the full stops, from position i on.
RECURSIVE SplitDots(_, _, _)
SplitDots(s, i, piece) ==
    IF i > Len(s) THEN <<piece>>
    ELSE IF s[i] = "." THEN <<piece>> \o SplitDots(s, i + 1, <<>>)
    ELSE SplitDots(s, i + 1, Append(piece, s[i]))

\* The for loop: a sentence is taken while it is not empty and the words
\* taken so far are fewer than max_length; the first other sentence ends it.
RECURSIVE TakeSentences(_, _, _, _)
TakeSentences(sentences, k, current_length, limit) ==
    IF k > Len(sentences) THEN <<>>
    ELSE LET sentence == Strip(sentences[k])
         IN  IF sentence # <<>> /\ current_length < limit
             THEN <<sentence>> \o TakeSentences(sentences, k + 1,
                                                current_length + WordCount(sentence), limit)
             ELSE <<>>

\* '. '.join(summary_sentences)
RECURSIVE JoinSentences(_)
JoinSentences(ss) ==
    IF ss = <<>> THEN <<>>
    ELSE IF Len(ss) = 1 THEN ss[1]
    ELSE ss[1] \o <<".", " ">> \o JoinSentences(Tail(ss))

summarize_content(text, limit) ==
    JoinSentences(TakeSentences(SplitDots(text, 1, <<>>), 1, 0, limit)) \o <<".">>

ContentAlphabet == {"a", " ", "."}

Contents == UNION {[1..n -> ContentAlphabet] : n \in 0..MaxContentLen}

InitSummarize ==
    /\ raw = <<>>
    /\ human = <<>>
    /\ fields = NoFields
    /\ secs = 0
    /\ video_ids = <<>>
    /\ response = NoResponse
    /\ details = <<>>
    /\ html = <<>>
    /\ result = NoResult
    /\ strict = FALSE
    /\ session = "none"
    /\ calls = <<>>
    /\ card_count = 0
    /\ flashcards = <<>>
    /\ total_cards = 0
    /\ pc = "idle"
    /\ to_summarize \in Contents
    /\ max_length \in 0..MaxMaxLength
    /\ summary = <<>>
    /\ api_key = FALSE
    /\ max_results = 0
    /\ catalogue = <<>>
    /\ api_status = "ok"
    /\ videos = <<>>
    /\ url = ""
    /\ fetch = "ok"
    /\ content_type = <<>>
    /\ url_result = [type |-> "", source |-> ""]
    /\ tool_name = ""
    /\ arguments = <<>>
    /\ reached = "none"
    /\ tool_result = [isError |-> FALSE, text |-> "", structured |-> FALSE, template |-> ""]
    /\ done = {}

SummarizeContent ==
    /\ "summarize_content" \notin done
    /\ summary' = summarize_content(to_summarize, max_length)
    /\ done' = done \cup {"summarize_content"}
    /\ UNCHANGED <<raw, human, fields, secs, video_ids, response, details, html, result, strict, session, calls, card_count, flashcards, total_cards, pc, to_summarize, max_length, api_key, max_results, catalogue, api_status, videos, url, fetch, content_type, url_result, tool_name, arguments, reached, tool_result>>

NextSummarize == SummarizeContent

SpecSummarize == InitSummarize /\ [][NextSummarize]_vars

(***************************************************************************)
(* search_educational_videos.  The search endpoint holds a catalogue of    *)
(* items for the query and answers a request with the first maxResults of  *)
(* them (the contract of the search.list parameter maxResults), or with an *)
(* error status; an item may lack the keys the code reads.                 *)
(***************************************************************************)
MockDetail1 ==
    [duration |-> <<"1", "5", ":", "3", "0">>, duration_seconds |-> 930,
     view_count |-> 125000, like_count |-> 3500]

MockDetail2 ==
    [duration |-> <<"2", "5", ":", "4", "5">>, duration_seconds |-> 1545,
     view_count |-> 89000, like_count |-> 2100]

MockDetail3 ==
    [duration |-> <<"4", "5", ":", "2", "0">>, duration_seconds |-> 2720,
     view_count |-> 156000, like_count |-> 4200]

Video(id, detail, source) == [video_id |-> id, detail |-> detail, source |-> source]

\* A search result no detail has been merged into.
NoDetail == [duration |-> <<>>, duration_seconds |-> 0, view_count |-> 0, like_count |-> 0]

mock_videos ==
    <<Video("dQw4w9WgXcQ", MockDetail1, "mock"), Video("abc123def456", MockDetail2, "mock"),
      Video("xyz789uvw012", MockDetail3, "mock")>>

\* seq[:n] for n >= 0
Prefix(seq, n) == SubSeq(seq, 1, Min(n, Len(seq)))

\* _get_mock_videos
get_mock_videos(limit) == Prefix(mock_videos, limit)

search_params_one_more(limit) == [maxResults |-> limit + 1]

\* params of the search request
search_params(limit) == [maxResults |-> limit]

\* The items of the search response to a request with these parameters.
ServerItems(cat, params) == Prefix(cat, params.maxResults)

\* item["id"]["videoId"], item["snippet"][...] raise KeyError on an item without them.
ItemKeyError(item) == ~item.complete

\* The /videos response to a request for ids: the items the endpoint has
\* for these ids, in the endpoint's order (a video that is gone has none).
RECURSIVE ItemsFor(_, _)
ItemsFor(ids, its) ==
    IF its = <<>> THEN <<>>
    ELSE (IF \E i \in 1..Len(ids) : ids[i] = Head(its).id THEN <<Head(its)>> ELSE <<>>)
         \o ItemsFor(ids, Tail(its))

VideosResponse(ids, endpoint) == [ok |-> endpoint.ok, items |-> ItemsFor(ids, endpoint.items)]

\* _search_with_api
search_with_api(limit, cat, status, resp) ==
    LET items == ServerItems(cat, search_params(limit))
        ids   == [i \in 1..Len(items) |-> items[i].videoId]
        detailed_videos == get_video_details(ids, VideosResponse(ids, resp))
    IN  IF status # "ok" \/ \E i \in 1..Len(items) : ItemKeyError(items[i])
        THEN get_mock_videos(limit)
        ELSE [i \in 1..Len(items) |->
                 IF i <= Len(detailed_videos)
                 THEN Video(ids[i], detailed_videos[i], "api")
                 ELSE Video(ids[i], NoDetail, "api")]

\* search_educational_videos
search_educational_videos(key, limit, cat, status, resp) ==
    IF key THEN search_with_api(limit, cat, status, resp) ELSE get_mock_videos(limit)

VideoIds == <<"v1", "v2", "v3", "v4", "v5">>

Catalogues ==
    {[i \in 1..n |-> [videoId |-> VideoIds[i], complete |-> i \notin broken]] :
        n \in 0..MaxCatalogue, broken \in SUBSET (1..MaxCatalogue)}

VideoDurations == <<PT4M13S, PT1H2M3S, PT90S, PT0S, P1DT2H>>

\* What the /videos endpoint may hold: one item for each video, and for the
\* first video also one whose viewCount is no number.
DetailItems ==
    {[id |-> VideoIds[i], duration |-> VideoDurations[i], viewCount |-> <<"7">>,
      likeCount |-> Absent] : i \in 1..MaxCatalogue}
    \cup {[id |-> VideoIds[1], duration |-> VideoDurations[1], viewCount |-> <<"X">>,
           likeCount |-> <<"3">>]}

InitSearch ==
    /\ raw = <<>>
    /\ human = <<>>
    /\ fields = NoFields
    /\ secs = 0
    /\ video_ids = <<>>
    /\ catalogue \in Catalogues
    /\ \E ok \in BOOLEAN, n \in 0..MaxCatalogue : \E items \in [1..n -> DetailItems] :
          /\ \A i \in 1..n, j \in 1..n : items[i].id = items[j].id => i = j
          /\ response = [ok |-> ok, items |-> items]
    /\ details = <<>>
    /\ html = <<>>
    /\ result = NoResult
    /\ strict = FALSE
    /\ session = "none"
    /\ calls = <<>>
    /\ card_count = 0
    /\ flashcards = <<>>
    /\ total_cards = 0
    /\ pc = "idle"
    /\ to_summarize = <<>>
    /\ max_length = 0
    /\ summary = <<>>
    /\ api_key \in BOOLEAN
    /\ max_results \in 0..MaxResults
    /\ api_status \in {"ok", "error"}
    /\ videos = <<>>
    /\ url = ""
    /\ fetch = "ok"
    /\ content_type = <<>>
    /\ url_result = [type |-> "", source |-> ""]
    /\ tool_name = ""
    /\ arguments = <<>>
    /\ reached = "none"
    /\ tool_result = [isError |-> FALSE, text |-> "", structured |-> FALSE, template |-> ""]
    /\ done = {}

SearchEducationalVideos ==
    /\ "search_educational_videos" \notin done
    /\ videos' = search_educational_videos(api_key, max_results, catalogue, api_status, response)
    /\ done' = done \cup {"search_educational_videos"}
    /\ UNCHANGED <<raw, human, fields, secs, video_ids, response, details, html, result, strict, session, calls, card_count, flashcards, total_cards, pc, to_summarize, max_length, summary, api_key, max_results, catalogue, api_status, url, fetch, content_type, url_result, tool_name, arguments, reached, tool_result>>

NextSearch == SearchEducationalVideos

SpecSearch == InitSearch /\ [][NextSearch]_vars

----------------------------------------------------------------------------
(***************************************************************************)
(* The duration format, stated independently of the matcher: a string is   *)
(* of the form PT(<hours>H)?(<minutes>M)?(<seconds>S)? when what follows   *)
(* "PT" splits into three segments, each empty or a run of digits and its  *)
(* designator.                                                             *)
(***************************************************************************)
DigitRun(x) == Len(x) >= 1 /\ \A i \in 1..Len(x) : IsDigit(x[i])

\* The number a run of digits denotes, read from the left.
RECURSIVE DecimalValue(_, _)
DecimalValue(x, acc) ==
    IF x = <<>> THEN acc ELSE DecimalValue(Tail(x), acc * 10 + DigitVal(Head(x)))

Segment(x, letter) ==
    \/ x = <<>>
    \/ Len(x) >= 2 /\ x[Len(x)] = letter /\ DigitRun(SubSeq(x, 1, Len(x) - 1))

SegmentValue(x) ==
    IF x = <<>> THEN 0 ELSE DecimalValue(SubSeq(x, 1, Len(x) - 1), 0)

StartsWithPT(s) == Len(s) >= 2 /\ s[1] = "P" /\ s[2] = "T"

\* The durations <<hours, minutes, seconds>> a string of the format denotes.
Denoted(s) ==
    IF ~StartsWithPT(s) THEN {}
    ELSE {<<SegmentValue(SubSeq(s, 3, i)), SegmentValue(SubSeq(s, i + 1, j)),
            SegmentValue(SubSeq(s, j + 1, Len(s)))>> :
            <<i, j>> \in {p \in (2..Len(s)) \X (2..Len(s)) :
                            /\ p[1] <= p[2]
                            /\ Segment(SubSeq(s, 3, p[1]), "H")
                            /\ Segment(SubSeq(s, p[1] + 1, p[2]), "M")
                            /\ Segment(SubSeq(s, p[2] + 1, Len(s)), "S")}}

WellFormed(s) == Denoted(s) # {}

\* x is n in decimal with no padding.
IsDecimal(x, n) ==
    DigitRun(x) /\ DecimalValue(x, 0) = n /\ (Len(x) = 1 \/ x[1] # "0")

\* x is n in decimal, zero-padded to two digits.
IsDecimal2(x, n) ==
    DigitRun(x) /\ DecimalValue(x, 0) = n /\ Len(x) >= 2 /\ (Len(x) = 2 \/ x[1] # "0")

Colons(x) == {i \in 1..Len(x) : x[i] = ":"}

\* x is H:MM:SS for the given values.
IsHMMSS(x, h, m, s) ==
    \E i, j \in Colons(x) :
        /\ i < j
        /\ IsDecimal(SubSeq(x, 1, i - 1), h)
        /\ IsDecimal2(SubSeq(x, i + 1, j - 1), m)
        /\ IsDecimal2(SubSeq(x, j + 1, Len(x)), s)

\* x is M:SS for the given values.
IsMSS(x, m, s) ==
    \E i \in Colons(x) :
        /\ IsDecimal(SubSeq(x, 1, i - 1), m)
        /\ IsDecimal2(SubSeq(x, i + 1, Len(x)), s)

Parsed  == "parse_duration" \in done
Counted == "duration_to_seconds" \in done

----------------------------------------------------------------------------
\* C1: for every input of the form PT(<hours>H)?(<minutes>M)?(<seconds>S)?,
\* _duration_to_seconds returns hours*3600 + minutes*60 + seconds, a missing
\* group counting as zero.
C1_TotalSeconds ==
    Counted => \A d \in Denoted(raw) : secs = d[1] * 3600 + d[2] * 60 + d[3]

\* PT4M13S has been converted and gave 253.
C1_Witness == Counted /\ raw = PT4M13S /\ secs = 253

\* C2: for every well-formed input the human-readable string is H:MM:SS when
\* hours > 0 and M:SS otherwise, minutes (after hours) and seconds zero-padded
\* to two digits, minutes unpadded when they lead; PT0S renders as 0:00.
C2_HumanFormat ==
    Parsed =>
        /\ \A d \in Denoted(raw) :
              IF d[1] > 0 THEN IsHMMSS(human, d[1], d[2], d[3])
                          ELSE IsMSS(human, d[2], d[3])
        /\ raw = PT0S => human = <<"0", ":", "0", "0">>

\* PT1H2M3S has been parsed and gave 1:02:03.
C2_Witness ==
    Parsed /\ raw = PT1H2M3S /\ human = <<"1", ":", "0", "2", ":", "0", "3">>

\* C3: for the empty string and every string the pattern does not match at
\* all (no "PT" at its start), the result is the sentinel: 0 seconds and the
\* human string "Unknown".
C3_NoMatchSentinel ==
    ~StartsWithPT(raw) =>
        /\ Parsed => human = Unknown /\ ~fields.matched
        /\ Counted => secs = 0

\* The empty string has gone through both functions and gave the sentinel.
C3_Witness == Parsed /\ Counted /\ raw = <<>> /\ human = Unknown /\ secs = 0

\* C4: every string that is not exactly of the form
\* PT(<hours>H)?(<minutes>M)?(<seconds>S)? gives the sentinel, 0 seconds and
\* "Unknown", also when it starts with "PT" and goes on with unsupported text.
C4_MalformedSentinel ==
    ~WellFormed(raw) =>
        /\ Parsed => human = Unknown
        /\ Counted => secs = 0

\* C5: every Duration produced by parsing has hours >= 0, minutes in 0..59
\* and seconds in 0..59.
C5_FieldRanges ==
    (Parsed /\ fields.matched) =>
        /\ fields.hours >= 0
        /\ fields.minutes \in 0..59
        /\ fields.seconds \in 0..59

\* C6: for every item the video-details step returns, duration_seconds is the
\* total seconds of that item's raw duration string.
C6_SecondsFromRaw ==
    ("get_video_details" \in done /\ Len(details) = Len(response.items)
        /\ response.ok /\ \A i \in 1..Len(response.items) : ~ItemRaises(response.items[i])) =>
        \A i \in 1..Len(details) :
            \A d \in Denoted(response.items[i].duration) :
                details[i].duration_seconds = d[1] * 3600 + d[2] * 60 + d[3]

----------------------------------------------------------------------------
(***************************************************************************)
(* The extractor's contract, stated on the parsed document.                *)
(***************************************************************************)
Extracted == "extract_html_content" \in done

\* The document as parsed, and as it is once script and style are removed.
ParsedDoc == BeautifulSoup(html)
Soup    == Decompose(ParsedDoc)

UpperCase == <<"A", "B", "C", "D", "E", "F", "G", "H", "I", "J", "K", "L", "M",
               "N", "O", "P", "Q", "R", "S", "T", "U", "V", "W", "X", "Y", "Z">>
LowerCase == <<"a", "b", "c", "d", "e", "f", "g", "h", "i", "j", "k", "l", "m",
               "n", "o", "p", "q", "r", "s", "t", "u", "v", "w", "x", "y", "z">>

Lower(c) ==
    IF \E i \in 1..26 : UpperCase[i] = c
    THEN LowerCase[CHOOSE i \in 1..26 : UpperCase[i] = c]
    ELSE c

LowerAll(s) == [i \in 1..Len(s) |-> Lower(s[i])]

\* The class attribute contains "content", "article" or "main", in any case.
ClassMatchesAnyCase(cls) == ClassMatches(LowerAll(cls))

\* The first element of any tag whose class matches in any case, or 0.
FirstClassMatching(soup) ==
    First({i \in 1..Len(soup) : soup[i].tag # "#text" /\ ClassMatchesAnyCase(soup[i].cls)})

\* The node the stated priority order selects, or 0 for none.
PriorityNode(soup) ==
    IF FindTag(soup, "main") # 0 THEN FindTag(soup, "main")
    ELSE IF FindTag(soup, "article") # 0 THEN FindTag(soup, "article")
    ELSE IF FirstClassMatching(soup) # 0 THEN FirstClassMatching(soup)
    ELSE FindTag(soup, "body")

\* The cleaned text of node i of the soup (the empty string for no node).
CleanedText(soup, i) ==
    IF i = 0 THEN <<>> ELSE Strip(SubNewlines(GetTextStripped(soup, i), 1))

\* The characters that stand only inside script and style elements.
RawTextChars == {"$", "<", ">", "/"}

HasRawText(s) == \E i \in 1..Len(s) : s[i] \in RawTextChars

\* C7: the content is taken from the first main element if there is one,
\* otherwise the first article, otherwise the first class-matching element,
\* otherwise body, otherwise it is empty; a candidate of lower priority is
\* never taken while one of higher priority exists anywhere in the document.
C7_PriorityOrder ==
    Extracted => result.content = CleanedText(Soup, PriorityNode(Soup))

\* C8: with no main and no article element, the content is taken from the
\* first element of any tag whose class attribute contains "content",
\* "article" or "main" as a case-insensitive substring.
C8_ClassMatchAnyTagAnyCase ==
    (Extracted /\ FindTag(Soup, "main") = 0 /\ FindTag(Soup, "article") = 0
        /\ FirstClassMatching(Soup) # 0) =>
        result.content = CleanedText(Soup, FirstClassMatching(Soup))

\* C9: text inside script and style elements never appears in the output,
\* neither in the body text nor in the title, whichever node is selected.
C9_NoScriptText ==
    Extracted => ~HasRawText(result.content) /\ ~HasRawText(result.title)

\* A document whose selected node (body) holds a style and a script element
\* has been extracted, and its text came out without theirs.
C9_Witness ==
    /\ Extracted
    /\ html = DocNewlines
    /\ \E i \in Subtree(ParsedDoc, FindTag(ParsedDoc, "body")) :
          ParsedDoc[i].tag = "#text" /\ HasRawText(ParsedDoc[i].text)
    /\ result.content = <<"a", "\n", "b", "\n", "\n", "c">>

\* C10: the document with title T and <main>Hello   world</main> gives title
\* "T", body text "Hello world" and word count 2; in general the body text
\* holds no run of two or more spaces.
C10_SpacesNormalized ==
    Extracted =>
        /\ html = DocHello =>
              /\ result.title = <<"T">>
              /\ result.content = <<"H", "e", "l", "l", "o", " ", "w", "o", "r", "l", "d">>
              /\ result.word_count = 2
        /\ \A i \in 1..(Len(result.content) - 1) :
              ~(result.content[i] = " " /\ result.content[i + 1] = " ")

\* _extract_html_content has returned a dictionary (it did not raise).
Returned == Extracted /\ result.type = "article"

NL3 == <<"\n", "\n", "\n">>

\* C11: the final body text holds no run of three or more consecutive
\* newlines (such a run of the selected text comes out as exactly two) and
\* has no leading or trailing whitespace.
C11_NewlinesCollapsed ==
    Returned =>
        /\ ~Contains(result.content, NL3)
        /\ result.content # <<>> =>
              ~IsSpace(result.content[1]) /\ ~IsSpace(result.content[Len(result.content)])
        /\ html = DocRuns => result.content = <<"a", "\n", "\n", "b", "\n", "\n", "c">>

\* The document whose selected text holds runs of three and of four newlines
\* between padded words has been extracted, each run as two newlines.
C11_Witness ==
    /\ Returned
    /\ html = DocRuns
    /\ Contains(GetText(Soup, FindTag(Soup, "main")), NL3)
    /\ IsSpace(GetText(Soup, FindTag(Soup, "main"))[1])
    /\ Contains(result.content, <<"a", "\n", "\n", "b">>)

\* The document has no element of that name.
Lacks(tag) == \A i \in 1..Len(ParsedDoc) : ParsedDoc[i].tag # tag

\* The document has a div whose class the extractor's pattern matches.
HasMatchingDiv ==
    \E i \in 1..Len(ParsedDoc) : ParsedDoc[i].tag = "div" /\ ClassMatches(ParsedDoc[i].cls)

\* C12 as stated: a document with no main, no article and no body element
\* gives the empty body text and word count 0.
C12_NoCandidateEmpty ==
    (Extracted /\ Lacks("main") /\ Lacks("article") /\ Lacks("body")) =>
        result.content = <<>> /\ result.word_count = 0

\* C12 amended: a document with no main, no article, no div of a matching
\* class and no body element gives the empty body text and word count 0.
C12_NoCandidateNoDivEmpty ==
    (Extracted /\ Lacks("main") /\ Lacks("article") /\ ~HasMatchingDiv /\ Lacks("body")) =>
        result.content = <<>> /\ result.word_count = 0

\* A document with text, but with none of the four candidates, has been
\* extracted with an empty body text.
C12_Witness ==
    /\ Returned
    /\ html = DocBare
    /\ Lacks("main") /\ Lacks("article") /\ ~HasMatchingDiv /\ Lacks("body")
    /\ \E i \in 1..Len(Soup) : Soup[i].tag = "#text" /\ ~AllSpace(Soup[i].text)
    /\ result.content = <<>>

\* A string without its leading and trailing whitespace.
Trimmed(s) ==
    LET dark == {i \in 1..Len(s) : ~IsSpace(s[i])}
    IN  IF dark = {} THEN <<>>
        ELSE SubSeq(s, CHOOSE i \in dark : \A j \in dark : i <= j,
                       CHOOSE i \in dark : \A j \in dark : j <= i)

\* C13: the title is the trimmed text of the first title element, and
\* exactly "Untitled" when the document has no title element.
C13_Title ==
    Returned =>
        result.title = IF Lacks("title") THEN Untitled
                       ELSE Trimmed(GetText(Soup, FindTag(Soup, "title")))

\* A document whose title element holds " T " has been extracted with the
\* title "T".
C13_Witness ==
    /\ Returned
    /\ html = DocNewlines
    /\ GetText(Soup, FindTag(Soup, "title")) = <<" ", "T", " ">>
    /\ result.title = <<"T">>

\* The maximal runs of characters that are not whitespace, counted at their ends.
TokenCount(s) ==
    Cardinality({i \in 1..Len(s) : ~IsSpace(s[i]) /\ (i = Len(s) \/ IsSpace(s[i + 1]))})

\* C14: the word count is the number of whitespace-delimited tokens of the
\* body text returned in the same result.
C14_WordCountOfContent ==
    Returned => result.word_count = TokenCount(result.content)

\* A body text of two words with three spaces between them has been returned
\* with word count 2.
C14_Witness ==
    /\ Returned
    /\ html = DocHello
    /\ Contains(result.content, <<"o", " ", " ", " ", "w">>)
    /\ result.word_count = 2

\* C15: the extraction never raises, for any input string; when no candidate
\* element is there (the markup may also be incomplete), it returns the
\* title "Untitled", the empty body text and word count 0.
C15_NeverRaises ==
    Extracted =>
        /\ result.type # "raised"
        /\ (Lacks("title") /\ Lacks("main") /\ Lacks("article") /\ ~HasMatchingDiv
              /\ Lacks("body")) =>
              /\ result.title = Untitled
              /\ result.content = <<>>
              /\ result.word_count = 0


\* What the call of caller c returns on objects of its own, with no other caller.
Alone(c) == call_result(calls[c].op, calls[c].arg, "open", strict)

C18_ExactCardCount ==
    <>(pc = "returned" /\ Len(flashcards) = card_count /\ total_cards = card_count)


\* C19: the summary summarize_content returns has at most max_length
\* words, for every text and every max_length of 0 or more.
C19_AtMostMaxLength ==
    "summarize_content" \in done => TokenCount(summary) <= max_length


Searched == "search_educational_videos" \in done

\* The first n of the three mock videos.
FirstMocks(n) == [i \in 1..(IF n < 3 THEN n ELSE 3) |-> mock_videos[i]]

\* The search request fails, or an item of the response lacks a key.
ApiFails ==
    \/ api_status = "error"
    \/ \E i \in 1..Len(catalogue) : i <= max_results /\ ~catalogue[i].complete

----------------------------------------------------------------------------
(***************************************************************************)
(* extract_from_url as an operation on one URL, the session of the         *)
(* extractor, and what the server answers.                                 *)
(***************************************************************************)
WordPdf  == <<"p", "d", "f">>
WordHtml == <<"h", "t", "m", "l">>

NoUrlResult == [type |-> "", source |-> ""]

\* What leaves extract_from_url when an exception is not caught.
UrlRaised == [type |-> "raised", source |-> ""]

\* session.get(url) raises on a closed client and on a network error;
\* raise_for_status() raises on a status that is not a success.
FetchRaisesError(sess, outcome) == sess = "closed" \/ outcome # "ok"

extract_from_url_html_uncaught(u, sess, outcome, ctype, body, rejecting) ==
    IF FetchRaisesError(sess, outcome) THEN [type |-> "error", source |-> u]
    ELSE IF Contains(LowerAll(ctype), WordPdf) THEN [type |-> "pdf", source |-> ""]
    ELSE IF Contains(LowerAll(ctype), WordHtml)
         THEN IF call_extract_html_content(body, rejecting).type = "raised"
              THEN UrlRaised
              ELSE [type |-> "article", source |-> u]
    ELSE [type |-> "text", source |-> u]

\* extract_from_url: the dictionary returned, by its type and metadata source
\* (the dictionary of _extract_pdf_content has no source).
extract_from_url(u, sess, outcome, ctype, body, rejecting) ==
    IF FetchRaisesError(sess, outcome) THEN [type |-> "error", source |-> u]
    ELSE IF Contains(LowerAll(ctype), WordPdf) THEN [type |-> "pdf", source |-> ""]
    ELSE IF Contains(LowerAll(ctype), WordHtml)
         THEN IF call_extract_html_content(body, rejecting).type = "raised"
              THEN [type |-> "error", source |-> u]
              ELSE [type |-> call_extract_html_content(body, rejecting).type, source |-> u]
    ELSE [type |-> "text", source |-> u]

Urls == {"http://a", "http://b"}

TypeParts ==
    {<<"p", "d", "f">>, <<"P", "D", "F">>, <<"h", "t", "m", "l">>, <<"H", "t", "m", "L">>,
     <<"t", "e", "x", "t">>, <<"/">>, <<"p", "d">>}

RECURSIVE ConcatParts(_)
ConcatParts(parts) ==
    IF parts = <<>> THEN <<>> ELSE Head(parts) \o ConcatParts(Tail(parts))

Bodies == {DocHello, DocBare, DocMarked}

InitUrl ==
    /\ raw = <<>>
    /\ human = <<>>
    /\ fields = NoFields
    /\ secs = 0
    /\ video_ids = <<>>
    /\ response = NoResponse
    /\ details = <<>>
    /\ html \in Bodies
    /\ result = NoResult
    /\ strict \in BOOLEAN
    /\ session \in {"open", "closed"}
    /\ calls = <<>>
    /\ card_count = 0
    /\ flashcards = <<>>
    /\ total_cards = 0
    /\ pc = "idle"
    /\ to_summarize = <<>>
    /\ max_length = 0
    /\ summary = <<>>
    /\ api_key = FALSE
    /\ max_results = 0
    /\ catalogue = <<>>
    /\ api_status = "ok"
    /\ videos = <<>>
    /\ url \in Urls
    /\ fetch \in {"ok", "network_error", "http_error"}
    /\ \E n \in 0..MaxTypeParts : \E parts \in [1..n -> TypeParts] :
          content_type = ConcatParts(parts)
    /\ url_result = NoUrlResult
    /\ tool_name = ""
    /\ arguments = <<>>
    /\ reached = "none"
    /\ tool_result = [isError |-> FALSE, text |-> "", structured |-> FALSE, template |-> ""]
    /\ done = {}

ExtractFromUrl ==
    /\ "extract_from_url" \notin done
    /\ url_result' = extract_from_url(url, session, fetch, content_type, html, strict)
    /\ done' = done \cup {"extract_from_url"}
    /\ UNCHANGED <<raw, human, fields, secs, video_ids, response, details, html, result, strict, session, calls, card_count, flashcards, total_cards, pc, to_summarize, max_length, summary, api_key, max_results, catalogue, api_status, videos, url, fetch, content_type, tool_name, arguments, reached, tool_result>>

NextUrl == ExtractFromUrl

SpecUrl == InitUrl /\ [][NextUrl]_vars

\* The content-type names the word, in any case.
Names(ctype, word) ==
    \E i \in 1..(Len(ctype) - Len(word) + 1) :
        \A k \in 1..Len(word) : Lower(ctype[i + k - 1]) = word[k]

\* The request fails, or the markup fetched is one the parser rejects.
UrlFailure ==
    \/ session = "closed"
    \/ fetch # "ok"
    \/ /\ ~Names(content_type, WordPdf) /\ Names(content_type, WordHtml)
       /\ strict /\ ParserRejects(html)

\* C21: extract_from_url never raises: a failure while fetching or
\* extracting (network error, status that is no success, closed session,
\* rejected markup) is returned as a dictionary of type "error" whose
\* metadata source is the requested URL; a successful fetch returns type
\* "pdf", "article" or "text" by the content-type, "pdf" before "html".
C21_ErrorsReturned ==
    "extract_from_url" \in done =>
        /\ url_result.type # "raised"
        /\ UrlFailure => url_result = [type |-> "error", source |-> url]
        /\ ~UrlFailure =>
              url_result.type = IF Names(content_type, WordPdf) THEN "pdf"
                                ELSE IF Names(content_type, WordHtml) THEN "article"
                                ELSE "text"

\* A page served as html whose markup the parser rejects has been asked
\* for, and extract_from_url has returned the error dictionary for its URL.
C21_Witness ==
    /\ "extract_from_url" \in done
    /\ session = "open" /\ fetch = "ok"
    /\ content_type = <<"H", "t", "m", "L">>
    /\ html = DocMarked /\ strict
    /\ url_result = [type |-> "error", source |-> url]


\* C22: the loop 'while len(flashcards) < card_count' always makes
\* progress: whenever its body is entered, for any card_count from 1 to 50,
\* a template is left for the card that is missing, so the body appends a
\* card and the call goes on to return.
C22_LoopProgress ==
    pc = "body" => Len(flashcards) < Len(template_questions)


----------------------------------------------------------------------------
(***************************************************************************)
(* _call_tool_request.  It is installed as the request handler itself, so  *)
(* the arguments are checked by the pydantic models and by nothing else.   *)
(* An argument value is a JSON value with its type; the arguments give a   *)
(* value, or none, to every key.                                           *)
(***************************************************************************)
AbsentV == [t |-> "absent", s |-> "", n |-> 0]
NullV   == [t |-> "null", s |-> "", n |-> 0]
StrV(s) == [t |-> "str", s |-> s, n |-> 0]
IntV(n) == [t |-> "int", s |-> "", n |-> n]

Keys ==
    {"topic", "current_level", "learning_style", "time_commitment", "difficulty",
     "card_count", "user_id", "extra"}

widgets ==
    <<[identifier |-> "learning-roadmap", template_uri |-> "ui://widget/learning-roadmap.html",
       response_text |-> "Generated a personalized learning roadmap!"],
      [identifier |-> "flashcard-session", template_uri |-> "ui://widget/flashcard-session.html",
       response_text |-> "Started an interactive flashcard session!"],
      [identifier |-> "learning-dashboard", template_uri |-> "ui://widget/learning-dashboard.html",
       response_text |-> "Loaded your learning dashboard!"]>>

\* WIDGETS_BY_ID.get(name): the index of the widget, or 0 for None.
WidgetById(name) ==
    IF \E i \in 1..Len(widgets) : widgets[i].identifier = name
    THEN CHOOSE i \in 1..Len(widgets) : widgets[i].identifier = name
    ELSE 0

\* The fields of RoadmapInput, FlashcardInput and DashboardInput with their types.
ModelFields(name) ==
    IF name = "learning-roadmap"
    THEN [topic |-> "str", current_level |-> "str", learning_style |-> "str",
          time_commitment |-> "str"]
    ELSE IF name = "flashcard-session"
    THEN [topic |-> "str", difficulty |-> "str", card_count |-> "int"]
    ELSE [user_id |-> "optstr"]

\* Field(...): the fields without a default.
RequiredFields(name) == IF name = "learning-dashboard" THEN {} ELSE {"topic"}

\* The strings int() of pydantic's lax mode turns into an integer.
Numerals == ("7" :> 7) @@ ("60" :> 60)

\* Whether pydantic takes the value for a field of the type (lax mode: a
\* str field takes a string only, an int field also a string of digits).
TypeAccepts(type, v) ==
    IF type = "str" THEN v.t = "str"
    ELSE IF type = "optstr" THEN v.t \in {"str", "null"}
    ELSE v.t = "int" \/ (v.t = "str" /\ v.s \in DOMAIN Numerals)

ValidationErrorExtraIgnored(name, args) ==
    \/ \E k \in RequiredFields(name) : args[k].t = "absent"
    \/ \E k \in DOMAIN ModelFields(name) :
          args[k].t # "absent" /\ ~TypeAccepts(ModelFields(name)[k], args[k])

\* model_validate raises ValidationError: a key that is no field
\* (extra="forbid"), a field without default that is missing, a value the
\* field's type does not take.
ValidationError(name, args) ==
    \/ \E k \in Keys : args[k].t # "absent" /\ k \notin DOMAIN ModelFields(name)
    \/ \E k \in RequiredFields(name) : args[k].t = "absent"
    \/ \E k \in DOMAIN ModelFields(name) :
          args[k].t # "absent" /\ ~TypeAccepts(ModelFields(name)[k], args[k])

\* payload.card_count: the value given, as an integer, or the default.
PayloadCardCount(args) ==
    IF args["card_count"].t = "absent" THEN DefaultCardCount
    ELSE IF args["card_count"].t = "int" THEN args["card_count"].n
    ELSE Numerals[args["card_count"].s]

\* The while loop of _generate_flashcards never ends: cards are missing and
\* no template is left for them, at the latest after the templates are used.
FlashcardsHang(count) ==
    Len(question_cards(count)) < count /\ Len(template_questions) < count

NoToolResult == [isError |-> FALSE, text |-> "", structured |-> FALSE, template |-> ""]

ErrorToolResult(text) == [isError |-> TRUE, text |-> text, structured |-> FALSE, template |-> ""]

WidgetToolResult(w) ==
    [isError |-> FALSE, text |-> widgets[w].response_text, structured |-> TRUE,
     template |-> widgets[w].template_uri]

Generator(name) ==
    IF name = "learning-roadmap" THEN "_generate_learning_roadmap"
    ELSE IF name = "flashcard-session" THEN "_generate_flashcards"
    ELSE "_get_dashboard_data"

Levels == {"beginner", "intermediate", "advanced"}
Styles == {"visual", "auditory", "kinesthetic", "reading"}
Commitments == {"low", "medium", "high"}
Difficulties == {"easy", "medium", "hard", "mixed"}

\* _get_input_schema: the enum of each property that has one.
InputSchemaEnums(name) ==
    IF name = "learning-roadmap"
    THEN [current_level |-> Levels, learning_style |-> Styles, time_commitment |-> Commitments]
    ELSE IF name = "flashcard-session" THEN [difficulty |-> Difficulties]
    ELSE [k \in {} |-> {}]

NoArguments == [k \in Keys |-> AbsentV]

TopicValues == {AbsentV, StrV("algebra"), IntV(7)}
ExtraValues == {AbsentV, StrV("x")}

RoadmapArguments ==
    {[NoArguments EXCEPT !["topic"] = t, !["current_level"] = l, !["learning_style"] = y,
                         !["time_commitment"] = c, !["extra"] = x] :
        t \in TopicValues, l \in {AbsentV, StrV("beginner"), StrV("expert")},
        y \in {AbsentV, StrV("reading"), StrV("tactile")},
        c \in {AbsentV, StrV("high"), IntV(7)}, x \in ExtraValues}

FlashcardArguments ==
    {[NoArguments EXCEPT !["topic"] = t, !["difficulty"] = d, !["card_count"] = c,
                         !["extra"] = x] :
        t \in TopicValues, d \in {AbsentV, StrV("hard"), StrV("brutal")},
        c \in {AbsentV, IntV(-1), IntV(0), IntV(1), IntV(5), IntV(6), IntV(50), IntV(51),
               StrV("7"), StrV("60"), StrV("many"), NullV},
        x \in ExtraValues}

DashboardArguments ==
    {[NoArguments EXCEPT !["user_id"] = u, !["topic"] = t, !["extra"] = x] :
        u \in {AbsentV, StrV("u1"), NullV, IntV(7)}, t \in {AbsentV, StrV("algebra")},
        x \in ExtraValues}

InitTool ==
    /\ raw = <<>>
    /\ human = <<>>
    /\ fields = NoFields
    /\ secs = 0
    /\ video_ids = <<>>
    /\ response = NoResponse
    /\ details = <<>>
    /\ html = <<>>
    /\ result = NoResult
    /\ strict = FALSE
    /\ session = "none"
    /\ calls = <<>>
    /\ card_count = 0
    /\ flashcards = <<>>
    /\ total_cards = 0
    /\ pc = "called"
    /\ to_summarize = <<>>
    /\ max_length = 0
    /\ summary = <<>>
    /\ api_key = FALSE
    /\ max_results = 0
    /\ catalogue = <<>>
    /\ api_status = "ok"
    /\ videos = <<>>
    /\ url = ""
    /\ fetch = "ok"
    /\ content_type = <<>>
    /\ url_result = NoUrlResult
    /\ \/ tool_name = "learning-roadmap" /\ arguments \in RoadmapArguments
       \/ tool_name = "flashcard-session" /\ arguments \in FlashcardArguments
       \/ tool_name = "learning-dashboard" /\ arguments \in DashboardArguments
       \/ tool_name \in {"flashcards", ""} /\ arguments \in FlashcardArguments
    /\ reached = "none"
    /\ tool_result = NoToolResult
    /\ done = {}

\* widget is None
UnknownTool ==
    /\ pc = "called"
    /\ WidgetById(tool_name) = 0
    /\ tool_result' = ErrorToolResult("Unknown tool")
    /\ pc' = "returned"
    /\ UNCHANGED <<raw, human, fields, secs, video_ids, response, details, html, result, strict, session, calls, card_count, flashcards, total_cards, to_summarize, max_length, summary, api_key, max_results, catalogue, api_status, videos, url, fetch, content_type, url_result, tool_name, arguments, reached, done>>

\* except ValidationError
RejectArguments ==
    /\ pc = "called"
    /\ WidgetById(tool_name) # 0
    /\ ValidationError(tool_name, arguments)
    /\ tool_result' = ErrorToolResult("Input validation error")
    /\ pc' = "returned"
    /\ UNCHANGED <<raw, human, fields, secs, video_ids, response, details, html, result, strict, session, calls, card_count, flashcards, total_cards, to_summarize, max_length, summary, api_key, max_results, catalogue, api_status, videos, url, fetch, content_type, url_result, tool_name, arguments, reached, done>>

\* payload = ...Input.model_validate(arguments); the generator is called.
CallGenerator ==
    /\ pc = "called"
    /\ WidgetById(tool_name) # 0
    /\ ~ValidationError(tool_name, arguments)
    /\ reached' = Generator(tool_name)
    /\ card_count' = IF tool_name = "flashcard-session" THEN PayloadCardCount(arguments)
                     ELSE card_count
    /\ pc' = "generating"
    /\ UNCHANGED <<raw, human, fields, secs, video_ids, response, details, html, result, strict, session, calls, flashcards, total_cards, to_summarize, max_length, summary, api_key, max_results, catalogue, api_status, videos, url, fetch, content_type, url_result, tool_name, arguments, tool_result, done>>

\* The generator returns structured_content and the result is built.
ReturnWidget ==
    /\ pc = "generating"
    /\ ~(reached = "_generate_flashcards" /\ FlashcardsHang(card_count))
    /\ tool_result' = WidgetToolResult(WidgetById(tool_name))
    /\ pc' = "returned"
    /\ UNCHANGED <<raw, human, fields, secs, video_ids, response, details, html, result, strict, session, calls, card_count, flashcards, total_cards, to_summarize, max_length, summary, api_key, max_results, catalogue, api_status, videos, url, fetch, content_type, url_result, tool_name, arguments, reached, done>>

NextTool == UnknownTool \/ RejectArguments \/ CallGenerator \/ ReturnWidget

SpecTool == InitTool /\ [][NextTool]_vars


Registered == \E i \in 1..Len(widgets) : widgets[i].identifier = tool_name

\* A property with an enum is given a string outside the enum.
OutsideEnum ==
    \E k \in DOMAIN InputSchemaEnums(tool_name) :
        arguments[k].t = "str" /\ arguments[k].s \notin InputSchemaEnums(tool_name)[k]

\* card_count is given an integer below the minimum or above the maximum.
CardCountOutside ==
    /\ tool_name = "flashcard-session"
    /\ arguments["card_count"].t = "int"
    /\ arguments["card_count"].n \notin CardCounts

\* C23: arguments that violate the input schema advertised for the tool (a
\* current_level, learning_style, time_commitment or difficulty outside its
\* enum, a card_count outside 1..50) never reach a generator function, and
\* the call returns the 'Input validation error' result.
C23_SchemaEnforced ==
    (Registered /\ (OutsideEnum \/ CardCountOutside)) =>
        /\ reached = "none"
        /\ pc = "returned" => tool_result = ErrorToolResult("Input validation error")

\* The fields of the tool's input model.
FieldsOf(name) ==
    IF name = "learning-roadmap"
    THEN {"topic", "current_level", "learning_style", "time_commitment"}
    ELSE IF name = "flashcard-session" THEN {"topic", "difficulty", "card_count"}
    ELSE {"user_id"}

\* The value is of the type the field of that key is declared with.
OfFieldType(k, v) ==
    IF k = "card_count" THEN v.t = "int" \/ (v.t = "str" /\ v.s \in {"7", "60"})
    ELSE IF k = "user_id" THEN v.t \in {"str", "null"}
    ELSE v.t = "str"

MissingTopic == tool_name # "learning-dashboard" /\ arguments["topic"] = AbsentV

ExtraField == \E k \in Keys \ FieldsOf(tool_name) : arguments[k] # AbsentV

WrongType == \E k \in FieldsOf(tool_name) : arguments[k] # AbsentV /\ ~OfFieldType(k, arguments[k])

\* C24: the result of _call_tool_request has isError = True exactly when
\* the name is no registered widget identifier or the arguments fail the
\* validation of the model (missing topic, extra field, wrong type); such a
\* result has no structuredContent and no widget metadata; every other
\* result has the response_text of the named widget as its text and that
\* widget's template_uri as its output template.
C24_ErrorExactly ==
    pc = "returned" =>
        /\ tool_result.isError <=> (~Registered \/ MissingTopic \/ ExtraField \/ WrongType)
        /\ tool_result.isError => ~tool_result.structured /\ tool_result.template = ""
        /\ ~tool_result.isError =>
              \E i \in 1..Len(widgets) :
                  /\ widgets[i].identifier = tool_name
                  /\ tool_result.text = widgets[i].response_text
                  /\ tool_result.template = widgets[i].template_uri
                  /\ tool_result.structured

\* A flashcard session with a topic and five cards has been asked for and
\* the result of the flashcard widget has been returned.
C24_Witness ==
    /\ pc = "returned"
    /\ tool_name = "flashcard-session"
    /\ arguments["topic"] = StrV("algebra") /\ arguments["card_count"] = IntV(5)
    /\ reached = "_generate_flashcards"
    /\ ~tool_result.isError
    /\ tool_result.text = "Started an interactive flashcard session!"
    /\ tool_result.template = "ui://widget/flashcard-session.html"


\* C25: the ContentExtractor that a call of _generate_flashcards creates is
\* eventually closed, on every path of the call (return, caught exception).
C25_ExtractorClosed == <>(session = "closed")

\* The item the /videos endpoint holds for the video, seen as a detail.
OwnDetails(id) ==
    {ItemDetail(response.items[k]) : k \in {j \in 1..Len(response.items) : response.items[j].id = id}}

\* The details request succeeds and every item of its response is well formed.
DetailsParsed ==
    /\ response.ok
    /\ \A k \in 1..Len(response.items) :
          (\E i \in 1..Len(videos) : videos[i].video_id = response.items[k].id) =>
              ~ItemRaises(response.items[k])

\* C26: every video the API search path returns carries duration,
\* duration_seconds, view_count and like_count, and they are those of its
\* own video_id, also when the details response holds fewer items than were
\* asked for or holds them in another order than the search results.
C26_OwnDetails ==
    Searched =>
        \A i \in 1..Len(videos) :
            videos[i].source = "api" =>
                /\ videos[i].detail # NoDetail
                /\ (DetailsParsed /\ OwnDetails(videos[i].video_id) # {}) =>
                      videos[i].detail \in OwnDetails(videos[i].video_id)


============================================================================
